---- MODULE Spec2Model ----
(***************************************************************************)
(* A model of package logx (src/logx.go): the channel registry `loggers`,  *)
(* the hook list of the logrus standard logger, InitLogger, GetLogger,     *)
(* strToNumSuffix and xmlToFileLogWriter.                                  *)
(*                                                                         *)
(* Strings whose characters the code inspects (size strings, property      *)
(* values) are sequences of one-character strings.  Go's int is taken to   *)
(* be 64 bits wide (amd64/arm64); an int64 is a sequence of 8 limbs in     *)
(* base 256, least significant first, in two's complement, so that the     *)
(* wrap-around of `parsed * num` is computed as the machine computes it.   *)
(***************************************************************************)
EXTENDS Integers, Sequences, FiniteSets, TLC

VARIABLES
    loggers,   \* var loggers map[string]*logrus.Logger, a function on the registered tags
    hooks,     \* the hook list of logrus.StandardLogger() (what logrus.AddHook appends to)
    calls,     \* number of InitLogger calls made so far
    succeeded, \* number of them that returned nil
    last,      \* what the most recent operation did and returned
    pin,       \* strToNumSuffix: the call's arguments
    pout,      \* strToNumSuffix: the call's result
    w,         \* xmlToFileLogWriter: the locals of a call in progress
    callers    \* concurrent GetLogger callers: position, argument, locals, result

vars == <<loggers, hooks, calls, succeeded, last, pin, pout, w, callers>>

----------------------------------------------------------------------------
(* Bounds of the model *)

\* longest size string enumerated exhaustively over Alphabet
MaxStrLen == 2
\* longest property list given to xmlToFileLogWriter
MaxProps == 2
\* number of InitLogger calls explored
MaxCalls == 2
\* number of concurrent GetLogger callers
MaxCallers == 2
\* longest list of filters in a configuration file
MaxFilters == 2

----------------------------------------------------------------------------
(* Machine integers: int64 as 8 limbs, base 256, little-endian *)

Base == 256
Width == 8
\* limbs of exact (unwrapped) values: 10^20 * 1024^3 < 256^14
WideWidth == Width + 6

RECURSIVE Limbs(_, _)
\* the k low limbs of the natural number n
Limbs(n, k) == IF k = 0 THEN <<>> ELSE <<n % Base>> \o Limbs(n \div Base, k - 1)

Zeros(k) == [i \in 1..k |-> 0]

RECURSIVE MulAdd(_, _, _)
\* a * m + c, truncated to Len(a) limbs (a wrap modulo 256^Len(a))
MulAdd(a, m, c) ==
    IF a = <<>> THEN <<>>
    ELSE LET t == Head(a) * m + c
         IN  <<t % Base>> \o MulAdd(Tail(a), m, t \div Base)

RECURSIVE Complement(_, _)
\* two's complement negation: (~a) + 1 with carry c, truncated to Len(a) limbs
Complement(a, c) ==
    IF a = <<>> THEN <<>>
    ELSE LET t == (Base - 1 - Head(a)) + c
         IN  <<t % Base>> \o Complement(Tail(a), t \div Base)

Neg(a) == Complement(a, 1)

\* math.MaxInt64 and math.MinInt64
MaxInt64 == [i \in 1..Width |-> IF i = Width THEN 127 ELSE 255]
MinInt64 == [i \in 1..Width |-> IF i = Width THEN 128 ELSE 0]

\* the int64 of a small natural number
I64(n) == Limbs(n, Width)

\* a * b of two ints, as the machine multiplies: wrapped to 64 bits.
\* b is one of 1, mult, mult^2, mult^3, given as the list of its factors.
RECURSIVE MulWrap(_, _)
MulWrap(a, factors) ==
    IF factors = <<>> THEN a ELSE MulWrap(MulAdd(a, Head(factors), 0), Tail(factors))

----------------------------------------------------------------------------
(* strconv *)

Digits == <<"0", "1", "2", "3", "4", "5", "6", "7", "8", "9">>
IsDigit(c) == \E i \in 1..10 : Digits[i] = c
DigitVal(c) == (CHOOSE i \in 1..10 : Digits[i] = c) - 1

AllDigits(s) == \A i \in 1..Len(s) : IsDigit(s[i])

RECURSIVE Magnitude(_, _)
\* the value of the digit string s appended to acc, in Len(acc) limbs
Magnitude(s, acc) ==
    IF s = <<>> THEN acc ELSE Magnitude(Tail(s), MulAdd(acc, 10, DigitVal(Head(s))))

\* a wide magnitude exceeds what 8 limbs with a clear sign bit can hold
Above63(m) == (\E i \in (Width + 1)..Len(m) : m[i] # 0) \/ m[Width] >= 128
\* a wide magnitude is exactly 2^63
Is2Pow63(m) == m = [i \in 1..Len(m) |-> IF i = Width THEN 128 ELSE 0]

\* strconv.Atoi(s): an optional sign, then one or more decimal digits.  A syntax
\* error gives 0; a value out of the int64 range gives the nearest bound (and
\* an error, which strToNumSuffix discards).
Atoi(s) ==
    LET signed == s # <<>> /\ Head(s) \in {"+", "-"}
        body   == IF signed THEN Tail(s) ELSE s
        neg    == signed /\ Head(s) = "-"
        mag    == Magnitude(body, Zeros(WideWidth))
    IN  IF body = <<>> \/ ~AllDigits(body) THEN [val |-> I64(0), err |-> TRUE]
        ELSE IF neg /\ Is2Pow63(mag) THEN [val |-> MinInt64, err |-> FALSE]
        ELSE IF Above63(mag)
             THEN [val |-> IF neg THEN MinInt64 ELSE MaxInt64, err |-> TRUE]
        ELSE [val |-> IF neg THEN Neg(SubSeq(mag, 1, Width)) ELSE SubSeq(mag, 1, Width),
              err |-> FALSE]

\* strconv.ParseUint(s, 10, 32): one or more decimal digits, no sign.  A syntax
\* error gives 0; a value above 2^32-1 gives 2^32-1 (and an error).
MaxUint32 == [i \in 1..Width |-> IF i <= 4 THEN 255 ELSE 0]

ParseUint32(s) ==
    LET mag == Magnitude(s, Zeros(WideWidth))
    IN  IF s = <<>> \/ ~AllDigits(s) THEN [val |-> I64(0), err |-> TRUE]
        ELSE IF \E i \in 5..WideWidth : mag[i] # 0 THEN [val |-> MaxUint32, err |-> TRUE]
        ELSE [val |-> SubSeq(mag, 1, Width), err |-> FALSE]

----------------------------------------------------------------------------
(* strings *)

Cutset == {" ", "\r", "\n"}

RECURSIVE TrimLeft(_)
TrimLeft(s) == IF s # <<>> /\ Head(s) \in Cutset THEN TrimLeft(Tail(s)) ELSE s

RECURSIVE TrimRight(_)
TrimRight(s) ==
    IF s # <<>> /\ s[Len(s)] \in Cutset THEN TrimRight(SubSeq(s, 1, Len(s) - 1)) ELSE s

\* strings.Trim(s, " \r\n")
Trim(s) == TrimRight(TrimLeft(s))

----------------------------------------------------------------------------
(* strToNumSuffix *)

\* the switch without its fallthroughs
SuffixPowerNoFallthrough(c) == IF c \in {"G", "g", "M", "m", "K", "k"} THEN 1 ELSE 0

\* the number of times the switch multiplies num by mult: the case taken and
\* the cases it falls through to
SuffixPower(c) ==
    IF c \in {"G", "g"} THEN 3
    ELSE IF c \in {"M", "m"} THEN 2
    ELSE IF c \in {"K", "k"} THEN 1
    ELSE 0

strToNumSuffix(str, mult) ==
    LET k      == IF Len(str) > 1 THEN SuffixPower(str[Len(str)]) ELSE 0
        body   == IF k > 0 THEN SubSeq(str, 1, Len(str) - 1) ELSE str
        parsed == Atoi(body).val
    IN  MulWrap(parsed, [i \in 1..k |-> mult])

----------------------------------------------------------------------------
(* rotatelogs.New and xmlToFileLogWriter *)

\* the conversion characters a strftime pattern may hold after a '%'
StrftimeVerbs ==
    {"A", "a", "B", "b", "C", "c", "D", "d", "e", "F", "H", "I", "j", "k", "l", "M",
     "m", "n", "p", "R", "r", "S", "T", "t", "U", "u", "V", "v", "W", "w", "X", "x",
     "Y", "y", "Z", "z", "%"}

\* rotatelogs.New compiles its first argument as a strftime pattern and fails
\* when a '%' is followed by no conversion character.  The suffix the code
\* appends ("-%Y%m%d%H") and the tags of the model hold no such '%', so the
\* pattern compiles exactly when the directory part does.
RECURSIVE PatternCompiles(_)
PatternCompiles(dir) ==
    IF dir = <<>> THEN TRUE
    ELSE IF Head(dir) # "%" THEN PatternCompiles(Tail(dir))
    ELSE Len(dir) >= 2 /\ dir[2] \in StrftimeVerbs /\ PatternCompiles(Tail(Tail(dir)))

\* io.Writer values.  os.Stdout and os.Stderr are the process streams; a rotate
\* writer is an object of its own (obj), with the link path and the options
\* rotatelogs.New was given.
NoCount == Zeros(Width)
OsStdout ==
    [kind |-> "os.Stdout", obj |-> 0, link |-> <<>>, options |-> {},
     rotationCount |-> NoCount, rotationSize |-> NoCount]
OsStderr ==
    [kind |-> "os.Stderr", obj |-> 0, link |-> <<>>, options |-> {},
     rotationCount |-> NoCount, rotationSize |-> NoCount]

\* path.Join(logPath, tag + ".log"): the pair of the directory and the tag
PathJoin(logPath, tag) == <<logPath, tag>>

\* lines 169-170: the locals of xmlToFileLogWriter before the loop
WriterDefaults ==
    [maxbackups |-> I64(10), maxsize |-> strToNumSuffix(<<"1", "0", "0", "M">>, 1024)]

\* a loop that keeps the retention count when ParseUint reports an error
ApplyPropKeepOnError(loc, prop) ==
    IF prop.name = "maxbackups"
    THEN IF ParseUint32(Trim(prop.value)).err THEN loc
         ELSE [loc EXCEPT !.maxbackups = ParseUint32(Trim(prop.value)).val]
    ELSE IF prop.name = "maxsize"
    THEN [loc EXCEPT !.maxsize = strToNumSuffix(Trim(prop.value), 1024)]
    ELSE loc

\* lines 174-179: one iteration of the loop over the properties
ApplyProp(loc, prop) ==
    IF prop.name = "maxbackups"
    THEN [loc EXCEPT !.maxbackups = ParseUint32(Trim(prop.value)).val]
    ELSE IF prop.name = "maxsize"
    THEN [loc EXCEPT !.maxsize = strToNumSuffix(Trim(prop.value), 1024)]
    ELSE loc

RECURSIVE FoldProps(_, _)
FoldProps(loc, props) ==
    IF props = <<>> THEN loc ELSE FoldProps(ApplyProp(loc, Head(props)), Tail(props))

\* lines 182-193: the rotate writer built from the locals, or the error
FileRotate(filename, loc, id) ==
    IF PatternCompiles(filename[1])
    THEN [err |-> FALSE,
          out |-> [kind |-> "rotate", obj |-> id, link |-> filename,
                   options |-> {"LinkName", "RotationTime", "RotationCount", "RotationSize"},
                   rotationCount |-> loc.maxbackups, rotationSize |-> loc.maxsize]]
    ELSE [err |-> TRUE, out |-> OsStderr]

xmlToFileLogWriter(filename, props, id) ==
    FileRotate(filename, FoldProps(WriterDefaults, props), id)

\* a synthesized channel given the count and size limits of a file channel
PlainRotateLimited(filename, id) == xmlToFileLogWriter(filename, <<>>, id)

\* lines 105-109 and 123-127: the rotate writer of a synthesized channel
PlainRotate(filename, id) ==
    IF PatternCompiles(filename[1])
    THEN [err |-> FALSE,
          out |-> [kind |-> "rotate", obj |-> id, link |-> filename,
                   options |-> {"LinkName", "RotationTime"},
                   rotationCount |-> NoCount, rotationSize |-> NoCount]]
    ELSE [err |-> TRUE, out |-> OsStderr]

----------------------------------------------------------------------------
(* logrus *)

PanicLevel == 0
FatalLevel == 1
ErrorLevel == 2
WarnLevel == 3
InfoLevel == 4
DebugLevel == 5

\* logrus.ParseLevel
ParseLevel(s) ==
    IF s = "panic" THEN [ok |-> TRUE, level |-> PanicLevel]
    ELSE IF s = "fatal" THEN [ok |-> TRUE, level |-> FatalLevel]
    ELSE IF s = "error" THEN [ok |-> TRUE, level |-> ErrorLevel]
    ELSE IF s \in {"warn", "warning"} THEN [ok |-> TRUE, level |-> WarnLevel]
    ELSE IF s = "info" THEN [ok |-> TRUE, level |-> InfoLevel]
    ELSE IF s = "debug" THEN [ok |-> TRUE, level |-> DebugLevel]
    ELSE [ok |-> FALSE, level |-> InfoLevel]

\* logrus.StandardLogger(): the one logger the package-level functions of
\* logrus (AddHook among them) act on
StdId == 0
StdLogger == [id |-> StdId, level |-> InfoLevel, out |-> OsStderr]

\* logrus.New(): a fresh logger at Info, writing to os.Stderr, with a hook
\* list of its own, which is empty
NewLogger(id) == [id |-> id, level |-> InfoLevel, out |-> OsStderr]

\* lfshook.NewHook(WriterMap{...}): the levels it fires at and their writer
ErrorLevels == {ErrorLevel, PanicLevel, FatalLevel}
OutputLevels == {DebugLevel, InfoLevel, WarnLevel}
NewHook(levels, writer) == [levels |-> levels, writer |-> writer]

\* init(): the two hooks on the standard logger's own output
InitHooks == <<NewHook(ErrorLevels, StdLogger.out), NewHook(OutputLevels, StdLogger.out)>>

----------------------------------------------------------------------------
(* InitLogger *)

\* The identity of an object (a logger and the writer made for it share one
\* number) is what a pointer comparison sees.  The objects alive are those the
\* registry or a hook refers to; an allocation returns an identity that no
\* live object has.
LiveIds(reg, hk) ==
    {StdId} \cup {reg[t].id : t \in DOMAIN reg} \cup {reg[t].out.obj : t \in DOMAIN reg}
            \cup {hk[i].writer.obj : i \in 1..Len(hk)}

FreshId(reg, hk) == CHOOSE n \in 1..(Cardinality(LiveIds(reg, hk)) + 1) :
                        /\ n \notin LiveIds(reg, hk)
                        /\ \A m \in 1..(n - 1) : m \in LiveIds(reg, hk)

\* loggers[tag] = h
Register(reg, tag, h) ==
    [t \in (DOMAIN reg) \cup {tag} |-> IF t = tag THEN h ELSE reg[t]]

\* an unknown level returned as an error
OnBadLevelReturned(st) == [st EXCEPT !.result = "error", !.cause = "level"]

\* lines 82-84: ParseLevel failed
OnBadLevel(st) == [st EXCEPT !.result = "panic", !.cause = "level"]

\* lines 92-94: xmlToFileLogWriter failed
OnFileSinkError(st) == [st EXCEPT !.result = "error", !.cause = "filesink"]

\* lines 110-112 and 128-130: rotatelogs.New failed for a synthesized channel
OnSynthSinkError(st) == [st EXCEPT !.result = "panic", !.cause = "synthsink"]

\* lines 80-97: one iteration of the loop over the filters.  st.result is
\* "run" while the call is running.
FilterStep(st, f, logPath) ==
    LET id    == FreshId(st.loggers, st.hooks)
        lv    == ParseLevel(f.level)
        filt  == [NewLogger(id) EXCEPT !.level = lv.level]
        wr    == xmlToFileLogWriter(PathJoin(logPath, f.tag), f.props, id)
    IN  IF ~lv.ok
        THEN OnBadLevel(st)
        ELSE IF f.type = "file" /\ wr.err
        THEN OnFileSinkError(st)
        ELSE LET out == IF f.type = "console" THEN OsStdout
                        ELSE IF f.type = "file" THEN wr.out
                        ELSE filt.out
             IN  [st EXCEPT !.loggers = Register(st.loggers, f.tag, [filt EXCEPT !.out = out])]

RECURSIVE RunFilters(_, _, _)
\* lines 79-98: the loop, left at the first return or panic
RunFilters(st, filters, logPath) ==
    IF filters = <<>> \/ st.result # "run" THEN st
    ELSE RunFilters(FilterStep(st, Head(filters), logPath), Tail(filters), logPath)

\* lines 100-115 and 118-133: the channel `name` is synthesized if absent
Synthesize(st, name, level, logPath) ==
    LET id     == FreshId(st.loggers, st.hooks)
        rotate == PlainRotate(PathJoin(logPath, name), id)
    IN  IF st.result # "run" \/ name \in DOMAIN st.loggers THEN st
        ELSE IF rotate.err
        THEN OnSynthSinkError(st)
        ELSE [st EXCEPT !.loggers = Register(st.loggers, name,
                                      [NewLogger(id) EXCEPT !.level = level, !.out = rotate.out])]

\* an initialization that replaces the hooks of the call before it
AddHooksReplacing(st) ==
    IF st.result # "run" THEN st
    ELSE [st EXCEPT !.hooks = InitHooks \o
                        <<NewHook(ErrorLevels, st.loggers["stderr"].out),
                          NewHook(OutputLevels, st.loggers["stdout"].out)>>,
                    !.result = "ok"]

\* lines 135-146: the two hooks appended to the standard logger, and success
AddHooks(st) ==
    IF st.result # "run" THEN st
    ELSE [st EXCEPT !.hooks = st.hooks \o
                        <<NewHook(ErrorLevels, st.loggers["stderr"].out),
                          NewHook(OutputLevels, st.loggers["stdout"].out)>>,
                    !.result = "ok"]

\* lines 64-77: opening, reading and parsing the configuration file
LoadConfig(st, file) ==
    IF file.kind = "missing" THEN [st EXCEPT !.result = "error", !.cause = "open"]
    ELSE IF file.kind = "unreadable" THEN [st EXCEPT !.result = "error", !.cause = "read"]
    ELSE IF file.kind = "malformed" THEN [st EXCEPT !.result = "error", !.cause = "parse"]
    ELSE st

\* InitLogger(logPath, filename) from the registry reg and the hook list hk:
\* what it leaves behind and how it ends (result
\* "ok": nil returned; "error": a non-nil error returned; "panic": the call
\* panicked), with the step that made it fail (cause).
InitLoggerOp(reg, hk, logPath, file) ==
    LET st0 == [loggers |-> reg, hooks |-> hk, result |-> "run", cause |-> "none"]
        st1 == LoadConfig(st0, file)
        st2 == RunFilters(st1, file.filters, logPath)
        st3 == Synthesize(st2, "stderr", ErrorLevel, logPath)
        st4 == Synthesize(st3, "stdout", InfoLevel, logPath)
    IN  AddHooks(st4)

----------------------------------------------------------------------------
(* GetLogger and the emission of a record *)

\* GetLogger without the fallback to "stdout"
GetLoggerNoFallback(reg, name) ==
    IF name \in DOMAIN reg THEN reg[name] ELSE StdLogger

\* lines 196-206
GetLoggerOp(reg, name) ==
    IF name \in DOMAIN reg THEN reg[name]
    ELSE IF "stdout" \in DOMAIN reg THEN reg["stdout"]
    ELSE StdLogger

\* one hook list shared by every logger
HooksOfAny(h, hk) == hk

\* the hook list of a logger: logrus.AddHook appends to the standard logger's
\* list; a logger made by logrus.New() keeps its own list, to which logx
\* never adds
HooksOf(h, hk) == IF h.id = StdId THEN hk ELSE <<>>

RECURSIVE FireHooks(_, _)
\* the writers the hooks of a list write a record of level lvl to, in order
FireHooks(hk, lvl) ==
    IF hk = <<>> THEN <<>>
    ELSE (IF lvl \in Head(hk).levels THEN <<Head(hk).writer>> ELSE <<>>)
         \o FireHooks(Tail(hk), lvl)

\* a record of level lvl logged through h: dropped when h's threshold does
\* not admit it (a greater number is a lesser severity); otherwise the hooks
\* of h fire, then the record is written to h's own output.  The result is
\* the sequence of writers written to.
EmitOp(h, hk, lvl) ==
    IF lvl > h.level THEN <<>> ELSE FireHooks(HooksOf(h, hk), lvl) \o <<h.out>>

----------------------------------------------------------------------------
(* Inputs *)

\* log directories: one whose pattern compiles, one whose pattern does not
LogPaths == {<<".", "/", "l">>, <<"l", "%", "q">>}

Tags == {"app", "stderr", "stdout"}
Names == Tags \cup {"nonexistent"}

\* the filters a configuration is made of: a console channel, a configured
\* stderr on a file with a property, a configured stdout whose type is neither
\* "console" nor "file", and a file channel whose level is no severity
Filters ==
    {[tag |-> "app", level |-> "warn", type |-> "console", props |-> <<>>],
     [tag |-> "stderr", level |-> "warn", type |-> "file",
      props |-> <<[name |-> "maxbackups", value |-> <<"3">>]>>],
     [tag |-> "stdout", level |-> "debug", type |-> "syslog", props |-> <<>>],
     [tag |-> "app", level |-> "bogus", type |-> "file", props |-> <<>>]}

SeqsUpTo(S, n) == UNION {[1..k -> S] : k \in 0..n}

\* configuration files: absent, unreadable, not XML, or a list of filters
Files ==
    [kind : {"missing", "unreadable", "malformed"}, filters : {<<>>}]
    \cup [kind : {"ok"}, filters : SeqsUpTo(Filters, MaxFilters)]

EmitLevels == {DebugLevel, InfoLevel, WarnLevel, ErrorLevel}

----------------------------------------------------------------------------
(* The registry: InitLogger, GetLogger and emission, each as one step *)

NoOp ==
    [op |-> "none", name |-> "", level |-> InfoLevel, handle |-> StdLogger, writes |-> <<>>,
     result |-> "", cause |-> "", tags |-> {}, logPath |-> <<>>]

IdleWriter ==
    [pc |-> "idle", dir |-> <<>>, props |-> <<>>, i |-> 0,
     loc |-> WriterDefaults, ret |-> [err |-> FALSE, out |-> OsStderr]]

\* the package after init(): an empty registry, two hooks
InitRegistry ==
    /\ loggers = <<>>
    /\ hooks = InitHooks
    /\ calls = 0
    /\ succeeded = 0
    /\ last = NoOp

NoParse ==
    /\ pin = [str |-> <<>>, mult |-> 1024]
    /\ pout = [done |-> FALSE, val |-> I64(0)]

NoCallers ==
    callers = [c \in 1..MaxCallers |-> [pc |-> "idle", name |-> "", result |-> StdLogger]]

Init ==
    /\ InitRegistry
    /\ NoParse
    /\ w = IdleWriter
    /\ NoCallers

TagsOf(file) == {file.filters[i].tag : i \in 1..Len(file.filters)}

\* InitLogger is called during start-up, before the first lookup or record
\* (it is not safe to call once logging has begun), and not while a lookup
\* is in progress.
InitLogger(logPath, file) ==
    /\ calls < MaxCalls
    /\ last.op \in {"none", "InitLogger"}
    /\ \A c \in 1..MaxCallers : callers[c].pc = "idle"
    /\ \E r \in {InitLoggerOp(loggers, hooks, logPath, file)} :
           /\ loggers' = r.loggers
           /\ hooks' = r.hooks
           /\ succeeded' = IF r.result = "ok" THEN succeeded + 1 ELSE succeeded
           /\ last' = [NoOp EXCEPT !.op = "InitLogger", !.result = r.result, !.cause = r.cause,
                                   !.tags = TagsOf(file), !.logPath = logPath]
    /\ calls' = calls + 1
    /\ UNCHANGED <<pin, pout, w, callers>>

GetLogger(name) ==
    /\ last' = [NoOp EXCEPT !.op = "GetLogger", !.name = name,
                            !.handle = GetLoggerOp(loggers, name)]
    /\ UNCHANGED <<loggers, hooks, calls, succeeded, pin, pout, w, callers>>

\* a record of level lvl logged through the handle the last GetLogger returned
Emit(lvl) ==
    /\ last.op \in {"GetLogger", "Emit"}
    /\ last' = [last EXCEPT !.op = "Emit", !.level = lvl,
                            !.writes = EmitOp(last.handle, hooks, lvl)]
    /\ UNCHANGED <<loggers, hooks, calls, succeeded, pin, pout, w, callers>>

Next ==
    \/ \E logPath \in LogPaths, file \in Files : InitLogger(logPath, file)
    \/ \E name \in Names : GetLogger(name)
    \/ \E lvl \in EmitLevels : Emit(lvl)

Spec == Init /\ [][Next]_vars

----------------------------------------------------------------------------
(* Claims about the registry *)

Registered(h) == \E t \in DOMAIN loggers : loggers[t] = h

\* C1: GetLogger(name) returns the handle registered under name if there is
\* one, otherwise the handle registered under "stdout" if there is one,
\* otherwise the standard logger; so a lookup of an unregistered name returns
\* what a lookup of "stdout" returns whenever "stdout" is registered.
C1_Lookup ==
    last.op = "GetLogger" =>
        /\ last.name \in DOMAIN loggers => last.handle = loggers[last.name]
        /\ (last.name \notin DOMAIN loggers /\ "stdout" \in DOMAIN loggers)
              => last.handle = loggers["stdout"]
        /\ (last.name \notin DOMAIN loggers /\ "stdout" \notin DOMAIN loggers)
              => last.handle = StdLogger

C1_Witness ==
    /\ last.op = "GetLogger"
    /\ last.name = "nonexistent"
    /\ "stdout" \in DOMAIN loggers
    /\ last.handle = loggers["stdout"]
    /\ last.handle # StdLogger

\* the record was admitted by the threshold of the handle it went through
Admitted == last.level <= last.handle.level

\* the channel a global hook would route the record to
RouteTag == IF last.level \in ErrorLevels THEN "stderr" ELSE "stdout"

\* C2 as stated: after a successful initialization, a record admitted by a
\* registered handle is written once to the handle's own sink and once more
\* to the sink of the "stderr" (Error) or "stdout" (Debug, Info, Warn) channel.
C2_Original ==
    (last.op = "Emit" /\ succeeded > 0 /\ Registered(last.handle) /\ Admitted) =>
        \/ last.writes = <<loggers[RouteTag].out, last.handle.out>>
        \/ last.writes = <<last.handle.out, loggers[RouteTag].out>>

\* C2 as amended: a record logged through a handle GetLogger returned is
\* dropped if the handle's threshold does not admit it; through a registered
\* channel handle it is written exactly once, to that handle's own sink, and
\* no hook fires; the hooks fire only for the standard logger, which GetLogger
\* returns only while no InitLogger call has succeeded, and there the record
\* is written twice to the standard logger's own output.
C2_OwnSinkOnly ==
    last.op = "Emit" =>
        /\ ~Admitted => last.writes = <<>>
        /\ (Admitted /\ Registered(last.handle)) => last.writes = <<last.handle.out>>
        /\ (Admitted /\ ~Registered(last.handle)) =>
              /\ last.handle = StdLogger
              /\ succeeded = 0
              /\ last.writes = <<OsStderr, OsStderr>>

C2_Witness ==
    /\ last.op = "Emit"
    /\ succeeded > 0
    /\ last.level = ErrorLevel
    /\ last.name = "app"
    /\ "app" \in DOMAIN loggers
    /\ last.handle = loggers["app"]
    /\ last.handle.out # loggers["stderr"].out
    /\ last.writes = <<last.handle.out>>

\* C3 as stated: an InitLogger call that fails leaves the registry as it was.
C3_Original ==
    [][(calls' # calls /\ last'.result # "ok") => loggers' = loggers]_vars

\* C4 as stated: every failure ends the call by returning a non-nil error.
C4_Original ==
    (last.op = "InitLogger" /\ last.cause # "none") => last.result = "error"

\* C4 as amended: a failure to open, read or parse the configuration file or
\* to construct the sink of a file-type filter ends the call by returning a
\* non-nil error; an unknown level string and a failure to construct the sink
\* of the synthesized stderr or stdout channel end it by a panic; the call
\* returns success only when no step failed.
C4_ErrorOrPanic ==
    last.op = "InitLogger" =>
        /\ last.cause \in {"open", "read", "parse", "filesink"} => last.result = "error"
        /\ last.cause \in {"level", "synthsink"} => last.result = "panic"
        /\ last.result = "ok" <=> last.cause = "none"
        /\ last.result \in {"ok", "error", "panic"}

C4_Witness ==
    /\ last.op = "InitLogger"
    /\ last.cause = "level"
    /\ last.result = "panic"
    /\ calls = 2
    /\ succeeded = 1

\* h, registered under n in reg, is an object of its own and so is its
\* writer: neither is the standard logger, another registered handle or its
\* writer, or the writer of a hook of the list hk
NewObject(h, n, reg, hk) ==
    /\ h.id # StdId
    /\ h.out.obj # StdId
    /\ \A t \in (DOMAIN reg) \ {n} : reg[t].id # h.id /\ reg[t].out.obj # h.out.obj
    /\ \A i \in 1..Len(hk) : hk[i].writer.obj # h.out.obj

SynthOptions == {"LinkName", "RotationTime"}
SynthLevel(n) == IF n = "stderr" THEN ErrorLevel ELSE InfoLevel

\* C5: after an InitLogger call that returns success "stderr" and "stdout" are
\* registered and GetLogger returns for them a handle other than the standard
\* logger; one that neither was registered before the call nor is a tag of the
\* configuration is a handle of its own at Error (resp. Info) on an hourly rotate
\* writer linked at join(logDir, name) with no count or size option; one that
\* was registered before and is no tag of the configuration is untouched; one
\* the configuration registers is not replaced by a synthesized handle.
C5_Synthesized ==
    [][(calls' # calls /\ last'.result = "ok") =>
         \A n \in {"stderr", "stdout"} :
            /\ n \in DOMAIN loggers'
            /\ GetLoggerOp(loggers', n) # StdLogger
            /\ GetLoggerOp(loggers', n) = loggers'[n]
            /\ (n \notin DOMAIN loggers /\ n \notin last'.tags) =>
                  /\ loggers'[n].level = SynthLevel(n)
                  /\ loggers'[n].out.kind = "rotate"
                  /\ NewObject(loggers'[n], n, loggers', hooks)
                  /\ loggers'[n].out.link = PathJoin(last'.logPath, n)
                  /\ loggers'[n].out.options = SynthOptions
            /\ (n \in DOMAIN loggers /\ n \notin last'.tags) => loggers'[n] = loggers[n]
            /\ n \in last'.tags => loggers'[n].out.options # SynthOptions
    ]_vars

C5_Witness ==
    /\ last.op = "InitLogger"
    /\ last.result = "ok"
    /\ succeeded = 2
    /\ last.tags = {"app", "stdout"}
    /\ loggers["stderr"].level = ErrorLevel
    /\ loggers["stderr"].out.options = SynthOptions
    /\ loggers["stdout"].out.options # SynthOptions

\* C10: the hook list only grows: an InitLogger call that returns success
\* appends two hooks, one for Error, Panic and Fatal on the writer of the
\* "stderr" channel and one for Debug, Info and Warn on the writer of the
\* "stdout" channel; no other step changes the list; so the list holds the two
\* hooks of package initialization and two more per successful call.
C10_HooksGrow ==
    /\ [](Len(hooks) = Len(InitHooks) + 2 * succeeded)
    /\ [][IF calls' # calls /\ last'.result = "ok"
          THEN hooks' = hooks \o <<[levels |-> {ErrorLevel, PanicLevel, FatalLevel},
                                    writer |-> loggers'["stderr"].out],
                                   [levels |-> {DebugLevel, InfoLevel, WarnLevel},
                                    writer |-> loggers'["stdout"].out]>>
          ELSE hooks' = hooks]_vars

C10_Witness ==
    /\ succeeded = 2
    /\ Len(hooks) = 6
    /\ hooks[3].writer # hooks[5].writer
    /\ hooks[4].writer = hooks[6].writer

----------------------------------------------------------------------------
(* strToNumSuffix as a call of its own *)

Alphabet == {"0", "5", "9", "K", "k", "M", "m", "G", "g", "X", "-", "+"}

Nines(n) == [i \in 1..n |-> "9"]

\* size strings: every string over Alphabet up to MaxStrLen, the examples of
\* the documentation, and strings whose value leaves the range of int
SizeStrings ==
    SeqsUpTo(Alphabet, MaxStrLen)
    \cup {<<"1", "0", "0", "M">>, <<"1", "2", "X">>, <<"1", "0", "0", "0", "K">>,
          Nines(10) \o <<"G">>, Nines(10) \o <<"M">>, Nines(18), Nines(20)}

Multipliers == {1000, 1024}

InitParse ==
    /\ InitRegistry
    /\ pin \in [str : SizeStrings, mult : Multipliers]
    /\ pout = [done |-> FALSE, val |-> I64(0)]
    /\ w = IdleWriter
    /\ NoCallers

Parse ==
    /\ ~pout.done
    /\ pout' = [done |-> TRUE, val |-> strToNumSuffix(pin.str, pin.mult)]
    /\ UNCHANGED <<loggers, hooks, calls, succeeded, last, pin, w, callers>>

NextParse == Parse

SpecParse == InitParse /\ [][NextParse]_vars

\* the exact value of digits * mult^k, in WideWidth limbs
Exact(digits, mult, k) ==
    MulWrap(Magnitude(digits, Zeros(WideWidth)), [i \in 1..k |-> mult])

\* the int v is the natural number whose exact value is e
Is(v, e) == v[Width] < 128 /\ e = v \o Zeros(WideWidth - Width)

\* the exact value e is one an int holds
Fits(e) == ~Above63(e)

SuffixLetters == {"K", "k", "M", "m", "G", "g"}
Front(s) == SubSeq(s, 1, Len(s) - 1)
\* the part of s before its optional single suffix letter
Stem(s) == IF s # <<>> /\ s[Len(s)] \in SuffixLetters THEN Front(s) ELSE s
\* an optionally signed, non-empty string of decimal digits
IsDecimal(s) ==
    LET body == IF s # <<>> /\ Head(s) \in {"+", "-"} THEN Tail(s) ELSE s
    IN  body # <<>> /\ AllDigits(body)
\* the power of the multiplier the claim assigns to a suffix letter
ClaimedPower(c) ==
    IF c \in {"K", "k"} THEN 1 ELSE IF c \in {"M", "m"} THEN 2 ELSE 3

\* what the claim says of the result for digit strings, with and without suffix
DigitCase(inRange) ==
    LET s == pin.str
    IN  /\ (s # <<>> /\ AllDigits(s) /\ (inRange => Fits(Exact(s, pin.mult, 0))))
              => Is(pout.val, Exact(s, pin.mult, 0))
        /\ (Len(s) >= 2 /\ s[Len(s)] \in SuffixLetters /\ AllDigits(Front(s))
              /\ (inRange => Fits(Exact(Front(s), pin.mult, ClaimedPower(s[Len(s)])))))
              => Is(pout.val, Exact(Front(s), pin.mult, ClaimedPower(s[Len(s)])))

\* what the claim says of the result for the other strings
ZeroCase == ~IsDecimal(Stem(pin.str)) => pout.val = I64(0)

\* C6 as stated: for every non-empty digit string d, parse(d) = d and
\* parse(d K|M|G) = d * mult^1|2|3; every input whose part before the optional
\* suffix letter is no decimal integer gives 0.
C6_Original == pout.done => (DigitCase(FALSE) /\ ZeroCase)

\* C6 as amended: the same, for the digit strings d whose value d * mult^k is
\* at most 2^63 - 1, the largest int.
C6_InRange == pout.done => (DigitCase(TRUE) /\ ZeroCase)

C6_Witness ==
    /\ pout.done
    /\ pin.str = <<"1", "0", "0", "M">>
    /\ pin.mult = 1024
    /\ pout.val = I64(104857600)

----------------------------------------------------------------------------
(* xmlToFileLogWriter as a call of its own, one loop iteration per step *)

PropNames == {"maxbackups", "maxsize", "other"}
PropValues ==
    {<<"3">>, <<" ", "7", "\n">>, <<"x">>, <<>>, <<"2", "K">>,
     <<"4", "2", "9", "4", "9", "6", "7", "2", "9", "6">>}
Props == [name : PropNames, value : PropValues]

InitWriter ==
    /\ InitRegistry
    /\ NoParse
    /\ \E d \in LogPaths, p \in SeqsUpTo(Props, MaxProps) :
          w = [IdleWriter EXCEPT !.pc = "call", !.dir = d, !.props = p]
    /\ NoCallers

\* lines 169-170
WriterEnter ==
    /\ w.pc = "call"
    /\ w' = [w EXCEPT !.pc = "loop", !.i = 1, !.loc = WriterDefaults]
    /\ UNCHANGED <<loggers, hooks, calls, succeeded, last, pin, pout, callers>>

\* lines 173-180, one property
WriterProp ==
    /\ w.pc = "loop"
    /\ w.i <= Len(w.props)
    /\ w' = [w EXCEPT !.i = w.i + 1, !.loc = ApplyProp(w.loc, w.props[w.i])]
    /\ UNCHANGED <<loggers, hooks, calls, succeeded, last, pin, pout, callers>>

\* lines 182-193
WriterNew ==
    /\ w.pc = "loop"
    /\ w.i > Len(w.props)
    /\ w' = [w EXCEPT !.pc = "done", !.ret = FileRotate(PathJoin(w.dir, "app"), w.loc, 1)]
    /\ UNCHANGED <<loggers, hooks, calls, succeeded, last, pin, pout, callers>>

NextWriter == WriterEnter \/ WriterProp \/ WriterNew

SpecWriter == InitWriter /\ [][NextWriter]_vars

\* the value of a short digit string, as a number
RECURSIVE NatOf(_, _)
NatOf(s, acc) == IF s = <<>> THEN acc ELSE NatOf(Tail(s), 10 * acc + DigitVal(Head(s)))

\* an unsigned decimal integer of at most nine digits
ShortDecimal(t) == t # <<>> /\ AllDigits(t) /\ Len(t) <= 9

\* the step processes a property called name
Processes(name) ==
    /\ w.pc = "loop"
    /\ w'.pc = "loop"
    /\ w'.i = w.i + 1
    /\ w.props[w.i].name = name

\* the trimmed value of the property the step processes
Trimmed == Trim(w.props[w.i].value)

\* the locals the loop starts from, and what the writer is built from
DefaultsAndResult ==
    /\ (w.pc = "loop" /\ w.i = 1) =>
          /\ w.loc.maxbackups = I64(10)
          /\ w.loc.maxsize = I64(100 * 1024 * 1024)
    /\ (w.pc = "done" /\ ~w.ret.err) =>
          /\ w.ret.out.rotationCount = w.loc.maxbackups
          /\ w.ret.out.rotationSize = w.loc.maxsize

\* a well-formed property replaces the value it names; any other property
\* leaves it alone
WellFormedReplaces ==
    /\ (Processes("maxbackups") /\ ShortDecimal(Trimmed)) =>
          /\ w'.loc.maxbackups = I64(NatOf(Trimmed, 0))
          /\ w'.loc.maxsize = w.loc.maxsize
    /\ (Processes("maxsize") /\ ShortDecimal(Trimmed)) =>
          /\ w'.loc.maxsize = I64(NatOf(Trimmed, 0))
          /\ w'.loc.maxbackups = w.loc.maxbackups
    /\ (Processes("maxsize") /\ Trimmed = <<"2", "K">>) => w'.loc.maxsize = I64(2 * 1024)
    /\ Processes("other") => w'.loc = w.loc

\* the value is no unsigned decimal integer after trimming
Malformed(t) == t = <<>> \/ ~AllDigits(t)

\* C9 as stated: the retention count starts at 10 and the size threshold at
\* 100*1024*1024, a well-formed property replaces the value it names, and a
\* malformed maxbackups leaves the retention count as it was.
C9_Original ==
    /\ []DefaultsAndResult
    /\ [][WellFormedReplaces]_vars
    /\ [][(Processes("maxbackups") /\ Malformed(Trimmed))
            => w'.loc.maxbackups = w.loc.maxbackups]_vars

\* C9 as amended: the same, but a malformed maxbackups sets the retention
\* count to 0, and one above 2^32 - 1 sets it to 2^32 - 1.
C9_MalformedIsZero ==
    /\ []DefaultsAndResult
    /\ [][WellFormedReplaces]_vars
    /\ [][(Processes("maxbackups") /\ Malformed(Trimmed))
            => w'.loc.maxbackups = I64(0)]_vars
    /\ [][(Processes("maxbackups") /\ ~Malformed(Trimmed) /\ ~ShortDecimal(Trimmed))
            => w'.loc.maxbackups = MaxUint32]_vars

C9_Witness ==
    /\ w.pc = "loop"
    /\ w.i = 3
    /\ w.props[1] = [name |-> "maxbackups", value |-> <<"3">>]
    /\ w.props[2] = [name |-> "maxbackups", value |-> <<"x">>]
    /\ w.loc.maxbackups = I64(0)

----------------------------------------------------------------------------
(* Concurrent GetLogger callers, one map lookup per step *)

CallerNames == {"stdout", "nonexistent"}

\* the configurations initialization is given here
ConcFiles == {f \in Files : Len(f.filters) <= 1}

\* a lookup that stores the fallback it found under the name asked for
LookupStepCaching(reg, cl) ==
    IF cl.pc = "l197"
    THEN IF cl.name \in DOMAIN reg
         THEN [reg |-> reg, caller |-> [cl EXCEPT !.pc = "ret", !.result = reg[cl.name]]]
         ELSE [reg |-> reg, caller |-> [cl EXCEPT !.pc = "l201"]]
    ELSE IF "stdout" \in DOMAIN reg
         THEN [reg |-> Register(reg, cl.name, reg["stdout"]),
               caller |-> [cl EXCEPT !.pc = "ret", !.result = reg["stdout"]]]
         ELSE [reg |-> reg, caller |-> [cl EXCEPT !.pc = "ret", !.result = StdLogger]]

\* lines 197-199 (at "l197") and 201-205 (at "l201"): the step of a caller and
\* the registry it leaves
LookupStep(reg, cl) ==
    IF cl.pc = "l197"
    THEN IF cl.name \in DOMAIN reg
         THEN [reg |-> reg, caller |-> [cl EXCEPT !.pc = "ret", !.result = reg[cl.name]]]
         ELSE [reg |-> reg, caller |-> [cl EXCEPT !.pc = "l201"]]
    ELSE IF "stdout" \in DOMAIN reg
         THEN [reg |-> reg, caller |-> [cl EXCEPT !.pc = "ret", !.result = reg["stdout"]]]
         ELSE [reg |-> reg, caller |-> [cl EXCEPT !.pc = "ret", !.result = StdLogger]]

CallerCall(c, name) ==
    /\ callers[c].pc = "idle"
    /\ callers' = [callers EXCEPT ![c] = [pc |-> "l197", name |-> name, result |-> StdLogger]]
    /\ UNCHANGED <<loggers, hooks, calls, succeeded, last, pin, pout, w>>

CallerLookup(c) ==
    /\ callers[c].pc \in {"l197", "l201"}
    /\ \E r \in {LookupStep(loggers, callers[c])} :
          /\ loggers' = r.reg
          /\ callers' = [callers EXCEPT ![c] = r.caller]
    /\ UNCHANGED <<hooks, calls, succeeded, last, pin, pout, w>>

CallerReturn(c) ==
    /\ callers[c].pc = "ret"
    /\ callers' = [callers EXCEPT ![c] = [pc |-> "idle", name |-> "", result |-> StdLogger]]
    /\ UNCHANGED <<loggers, hooks, calls, succeeded, last, pin, pout, w>>

NextConc ==
    \/ \E logPath \in LogPaths, file \in ConcFiles : InitLogger(logPath, file)
    \/ \E c \in 1..MaxCallers, name \in CallerNames : CallerCall(c, name)
    \/ \E c \in 1..MaxCallers : CallerLookup(c)
    \/ \E c \in 1..MaxCallers : CallerReturn(c)

SpecConc == Init /\ [][NextConc]_vars

\* C7: a step of a GetLogger caller changes neither the registry nor the hook
\* list, and whatever the interleaving of the callers' steps, a call returns
\* the handle GetLogger returns when run alone on the registry.
C7_ReadOnly ==
    [][callers' # callers =>
         /\ loggers' = loggers
         /\ hooks' = hooks
         /\ \A c \in 1..MaxCallers :
               callers'[c].pc = "ret" =>
                   callers'[c].result = GetLoggerOp(loggers, callers'[c].name)]_vars

C7_Witness ==
    /\ succeeded > 0
    /\ callers[1].pc = "l201"
    /\ callers[2].pc = "ret"
    /\ callers[2].name = "nonexistent"
    /\ callers[2].result = loggers["stdout"]

====
